---- MODULE Spec2Model ----
(***************************************************************************)
(* comafi_watch.py: the diff / classify / compose pipeline of the CEDEAR    *)
(* corporate-event monitor.                                                 *)
(*                                                                          *)
(* A Python str is modelled as a sequence of characters, each character a   *)
(* one-element TLA+ string.  Characters outside ASCII are written as their  *)
(* HTML entity ("&Oacute;" is one character), so that len(), slicing, "in"  *)
(* and upper() act on them as they do in Python.  None is the empty         *)
(* sequence <<>> and a present optional value x is <<x>>.                   *)
(***************************************************************************)
EXTENDS Integers, Sequences, FiniteSets, TLC

VARIABLES
    file,        \* content of STATE_FILE (seen.json)
    run,         \* number of runs of main started so far
    pc,          \* position of the process: "idle", "loop", "done", "crashed"
    idx,         \* number of SOURCES entries the loop of main has processed
    seen_dict,   \* main's seen_dict
    current,     \* per source: current_rows of this run
    new_rows,    \* per source: new_rows of this run
    results,     \* main's results: per source its bullet list
    msg,         \* what build_multi_source_message returned
    sends,       \* send_telegram calls of this run, each with its outcome
    prev,        \* current_rows of the previous run, per source
    prev_done,   \* <<TRUE>> / <<FALSE>>: the previous run reached save_seen; <<>>: no previous run
    arg,         \* argument of the function under check (function specifications)
    ret          \* <<value>> once the function under check returned, else <<>>

vars == <<file, run, pc, idx, seen_dict, current, new_rows, results,
          msg, sends, prev, prev_done, arg, ret>>

mainVars == <<file, run, pc, idx, seen_dict, current, new_rows, results,
              msg, sends, prev, prev_done>>

None == <<>>
Some(x) == <<x>>

(***************************************************************************)
(* Strings                                                                 *)
(***************************************************************************)
\* A literal of ASCII characters as a sequence of characters.
Chars(s) == [i \in 1..Len(s) |-> SubSeq(s, i, i)]

SepPipe == Chars(" | ")
KwDividendo == Chars("DIVIDENDO")
KwDeslisting == Chars("DESLISTING")
KwCambioDeMercado == Chars("CAMBIO DE MERCADO")
KwCambio == Chars("CAMBIO")
KwMercado == Chars("MERCADO")
KwSplit == Chars("SPLIT")
KwReverse == Chars("REVERSE")
KwAmpliacion == Chars("AMPLIACION")
KwWarrant == Chars("WARRANT")
KwDistribucion == Chars("DISTRIBUCION")
KwInformacionTypo == Chars("INFORMACION RELEVAVANTE")
KwInformacion == Chars("INFORMACION RELEVANTE")
KwFecha == Chars("fecha")
Ellipsis == Chars("...")
FuentePrefix == Chars("Fuente: ")
DigitChars == Chars("0123456789")
Space == <<" ">>
Newline == <<"\n">>

IsSpace(c) == c \in {" ", "\t", "\n"}

\* k in s
Contains(s, k) == \E i \in 0..(Len(s) - Len(k)) : SubSeq(s, i + 1, i + Len(k)) = k

LowerLetters == Chars("abcdefghijklmnopqrstuvwxyz") \o <<"&oacute;">>
UpperLetters == Chars("ABCDEFGHIJKLMNOPQRSTUVWXYZ") \o <<"&Oacute;">>

UpperChar(c) ==
    IF \E i \in 1..Len(LowerLetters) : LowerLetters[i] = c
    THEN UpperLetters[CHOOSE i \in 1..Len(LowerLetters) : LowerLetters[i] = c]
    ELSE c

\* s.upper()
Upper(s) == [i \in 1..Len(s) |-> UpperChar(s[i])]

\* s.strip()
Strip(s) ==
    IF \A i \in 1..Len(s) : IsSpace(s[i]) THEN <<>>
    ELSE LET a == CHOOSE i \in 1..Len(s) : ~IsSpace(s[i]) /\ \A j \in 1..(i - 1) : IsSpace(s[j])
             b == CHOOSE i \in 1..Len(s) : ~IsSpace(s[i]) /\ \A j \in (i + 1)..Len(s) : IsSpace(s[j])
         IN SubSeq(s, a, b)

\* s.split(c)
RECURSIVE Split(_, _)
Split(s, c) ==
    IF \A i \in 1..Len(s) : s[i] # c THEN <<s>>
    ELSE LET k == CHOOSE i \in 1..Len(s) : s[i] = c /\ \A j \in 1..(i - 1) : s[j] # c
         IN <<SubSeq(s, 1, k - 1)>> \o Split(SubSeq(s, k + 1, Len(s)), c)

\* s.split(): the maximal runs of non-whitespace characters
RECURSIVE Words(_)
Words(s) ==
    LET t == Strip(s)
    IN IF t = <<>> THEN <<>>
       ELSE IF \A i \in 1..Len(t) : ~IsSpace(t[i]) THEN <<t>>
       ELSE LET k == CHOOSE i \in 1..Len(t) : IsSpace(t[i]) /\ \A j \in 1..(i - 1) : ~IsSpace(t[j])
            IN <<SubSeq(t, 1, k - 1)>> \o Words(SubSeq(t, k + 1, Len(t)))

\* sep.join(parts)
RECURSIVE Join(_, _)
Join(parts, sep) ==
    IF parts = <<>> THEN <<>>
    ELSE IF Len(parts) = 1 THEN parts[1]
    ELSE parts[1] \o sep \o Join(Tail(parts), sep)

\* [p for p in parts if p != ""]
RECURSIVE NonEmpty(_)
NonEmpty(parts) ==
    IF parts = <<>> THEN <<>>
    ELSE (IF parts[1] # <<>> THEN <<parts[1]>> ELSE <<>>) \o NonEmpty(Tail(parts))

Range(s) == {s[i] : i \in 1..Len(s)}

\* list(dict.fromkeys(rows)): first occurrences, in order
Dedup(rows) ==
    LET keep == {i \in 1..Len(rows) : \A j \in 1..(i - 1) : rows[j] # rows[i]}
        RECURSIVE Pick(_)
        Pick(i) == IF i > Len(rows) THEN <<>>
                   ELSE (IF i \in keep THEN <<rows[i]>> ELSE <<>>) \o Pick(i + 1)
    IN Pick(1)

(***************************************************************************)
(* _norm, parse_row                                                        *)
(***************************************************************************)
_norm(s) == Strip(Join(Words(s), Space))

parse_row(row) ==
    LET split == Split(row, "|")
        stripped == [i \in 1..Len(split) |-> Strip(split[i])]
        parts == NonEmpty(stripped)
        fecha == IF Len(parts) > 0 THEN parts[1] ELSE <<>>
        ticker == IF Len(parts) > 1 THEN parts[2] ELSE <<>>
        desc == IF Len(parts) > 2 THEN parts[3] ELSE <<>>
    IN [fecha |-> _norm(fecha), ticker |-> _norm(ticker), desc |-> _norm(desc)]

(***************************************************************************)
(* classify_event                                                          *)
(***************************************************************************)
CatDividendos == <<"&#x1F4B0;">> \o Chars(" Dividendos")
CatCambios == <<"&#x2699;", "&#xFE0F;">> \o Chars(" Cambios corporativos")
CatAmpliaciones == <<"&#x1F3D7;">> \o Chars(" Ampliaciones")
CatInfo == <<"&#x1F4DD;">> \o Chars(" Informaci") \o <<"&oacute;">> \o Chars("n relevante")
CatOtros == <<"&#x1F4CC;">> \o Chars(" Otros")

LblDeslisting == Chars("Deslisting")
LblCambioMercado == Chars("Cambio de mercado")
LblSplit == Chars("Split")
LblReverseSplit == Chars("Reverse split")
LblAmpliacion == Chars("Ampliaci") \o <<"&oacute;">> \o Chars("n de monto m") \o <<"&aacute;">> \o Chars("ximo")
LblDistribucion == Chars("Distribuci") \o <<"&oacute;">> \o Chars("n / Warrants")
LblInfo == Chars("Informaci") \o <<"&oacute;">> \o Chars("n relevante")
LblEvento == Chars("Evento")

KwAmpliacionAcc == Chars("AMPLIACI") \o <<"&Oacute;">> \o Chars("N")
KwDistribucionAcc == Chars("DISTRIBUCI") \o <<"&Oacute;">> \o Chars("N")
KwInformacionAcc == Chars("INFORMACI") \o <<"&Oacute;">> \o Chars("N RELEVANTE")

classify_event_reverse_first(desc) ==
    LET d == Upper(desc)
    IN IF Contains(d, KwDividendo) THEN <<CatDividendos, None>>
       ELSE IF Contains(d, KwDeslisting) THEN <<CatCambios, Some(LblDeslisting)>>
       ELSE IF Contains(d, KwCambioDeMercado)
               \/ (Contains(d, KwCambio) /\ Contains(d, KwMercado))
            THEN <<CatCambios, Some(LblCambioMercado)>>
       ELSE IF Contains(d, KwReverse) /\ Contains(d, KwSplit)
            THEN <<CatCambios, Some(LblReverseSplit)>>
       ELSE IF Contains(d, KwSplit) THEN <<CatCambios, Some(LblSplit)>>
       ELSE IF Contains(d, KwAmpliacionAcc) \/ Contains(d, KwAmpliacion)
            THEN <<CatAmpliaciones, Some(LblAmpliacion)>>
       ELSE IF Contains(d, KwWarrant) \/ Contains(d, KwDistribucionAcc)
               \/ Contains(d, KwDistribucion)
            THEN <<CatCambios, Some(LblDistribucion)>>
       ELSE IF Contains(d, KwInformacionAcc) \/ Contains(d, KwInformacionTypo)
               \/ Contains(d, KwInformacion)
            THEN <<CatInfo, Some(LblInfo)>>
       ELSE <<CatOtros, Some(LblEvento)>>

classify_event(desc) ==
    LET d == Upper(desc)
    IN IF Contains(d, KwDividendo) THEN <<CatDividendos, None>>
       ELSE IF Contains(d, KwDeslisting) THEN <<CatCambios, Some(LblDeslisting)>>
       ELSE IF Contains(d, KwCambioDeMercado)
               \/ (Contains(d, KwCambio) /\ Contains(d, KwMercado))
            THEN <<CatCambios, Some(LblCambioMercado)>>
       ELSE IF Contains(d, KwSplit) THEN <<CatCambios, Some(LblSplit)>>
       ELSE IF Contains(d, KwReverse) /\ Contains(d, KwSplit)
            THEN <<CatCambios, Some(LblReverseSplit)>>
       ELSE IF Contains(d, KwAmpliacionAcc) \/ Contains(d, KwAmpliacion)
            THEN <<CatAmpliaciones, Some(LblAmpliacion)>>
       ELSE IF Contains(d, KwWarrant) \/ Contains(d, KwDistribucionAcc)
               \/ Contains(d, KwDistribucion)
            THEN <<CatCambios, Some(LblDistribucion)>>
       ELSE IF Contains(d, KwInformacionAcc) \/ Contains(d, KwInformacionTypo)
               \/ Contains(d, KwInformacion)
            THEN <<CatInfo, Some(LblInfo)>>
       ELSE <<CatOtros, Some(LblEvento)>>

(***************************************************************************)
(* Configuration: SOURCES, STATE_FILE's legacy key                         *)
(***************************************************************************)
UrlPrefix == Chars("https://www.comafi.com.ar/custodiaglobal/")

SOURCES ==
    << [title |-> <<"&#x1F4CC;">> \o Chars(" ") \o <<"&Uacute;">> \o Chars("ltimos eventos corporativos"),
        url |-> UrlPrefix \o Chars("eventos-corporativos.aspx")],
       [title |-> <<"&#x1F4B0;">> \o Chars(" ") \o <<"&Uacute;">> \o Chars("ltimos avisos de dividendos"),
        url |-> UrlPrefix \o Chars("dividendos.aspx")],
       [title |-> <<"&#x1F3E6;">> \o Chars(" ") \o <<"&Uacute;">> \o Chars("ltimos pagos"),
        url |-> UrlPrefix \o Chars("pagos.aspx")] >>

NSources == Len(SOURCES)

LegacyKey == Chars("legacy")

(***************************************************************************)
(* dict helpers: a dict is a function on its keys                          *)
(***************************************************************************)
EmptyDict == [k \in {} |-> <<>>]

\* d.get(k, default)
Get(d, k, default) == IF k \in DOMAIN d THEN d[k] ELSE default

\* d[k] = v
Put(d, k, v) == [x \in (DOMAIN d) \cup {k} |-> IF x = k THEN v ELSE d[x]]

(***************************************************************************)
(* load_seen, save_seen.  STATE_FILE is None (no file) or Some(document),  *)
(* the document a JSON list or a JSON object.                              *)
(***************************************************************************)
JsonList(l) == [kind |-> "list", data |-> l]
JsonObject(d) == [kind |-> "dict", data |-> d]

load_seen_legacy_under_first_source(f) ==
    IF f = None THEN EmptyDict
    ELSE IF f[1].kind = "list" THEN Put(EmptyDict, SOURCES[1].url, f[1].data)
    ELSE f[1].data

load_seen(f) ==
    IF f = None THEN EmptyDict
    ELSE IF f[1].kind = "list" THEN Put(EmptyDict, LegacyKey, f[1].data)
    ELSE f[1].data

save_seen(d) == Some(JsonObject(d))

(***************************************************************************)
(* scrape_rows.  The browser part (goto, "Ver mas" clicks, page.content()) *)
(* is the input: the page as parsed, None when it has no <table>, else     *)
(* Some(trs), each tr the texts of its td/th cells.                        *)
(***************************************************************************)
LowerChar(c) ==
    IF \E i \in 1..Len(UpperLetters) : UpperLetters[i] = c
    THEN LowerLetters[CHOOSE i \in 1..Len(UpperLetters) : UpperLetters[i] = c]
    ELSE c

\* s.lower()
Lower(s) == [i \in 1..Len(s) |-> LowerChar(s[i])]

KwIdentificacion == Chars("identificaci") \o <<"&oacute;">> \o Chars("n")

\* the rows list before dict.fromkeys
RECURSIVE RawRows(_)
RawRows(trs) ==
    IF trs = <<>> THEN <<>>
    ELSE LET cells == [i \in 1..Len(trs[1]) |-> Strip(trs[1][i])]
             header_text == Lower(Join(cells, Space))
             skip == \/ Len(cells) < 3
                     \/ (Contains(header_text, KwFecha) /\ Contains(header_text, KwIdentificacion))
         IN (IF skip THEN <<>> ELSE <<Join(cells, SepPipe)>>) \o RawRows(Tail(trs))

scrape_rows_no_dedup(page) ==
    IF page = None THEN <<>> ELSE RawRows(page[1])

scrape_rows(page) ==
    IF page = None THEN <<>> ELSE Dedup(RawRows(page[1]))

(***************************************************************************)
(* main, lines 254-273: the diff and the bullets of one source             *)
(***************************************************************************)
\* [r for r in current_rows if r not in seen_set]
RECURSIVE NewRows(_, _)
NewRows(current_rows, seen_list) ==
    IF current_rows = <<>> THEN <<>>
    ELSE (IF current_rows[1] \in Range(seen_list) THEN <<>> ELSE <<current_rows[1]>>)
         \o NewRows(Tail(current_rows), seen_list)

DescLimit == 90
DescKeep == 87

BulletMark == <<"&bull;">> \o Chars(" ")

Bullet_cut_at_limit(row) ==
    LET p == parse_row(row)
        short == IF Len(p.desc) > DescLimit
                 THEN SubSeq(p.desc, 1, DescLimit) \o Ellipsis
                 ELSE p.desc
    IN IF p.ticker # <<>>
       THEN BulletMark \o p.fecha \o SepPipe \o p.ticker \o SepPipe \o short
       ELSE BulletMark \o row

Bullet(row) ==
    LET p == parse_row(row)
        short == IF Len(p.desc) > DescLimit
                 THEN SubSeq(p.desc, 1, DescKeep) \o Ellipsis
                 ELSE p.desc
    IN IF p.ticker # <<>>
       THEN BulletMark \o p.fecha \o SepPipe \o p.ticker \o SepPipe \o short
       ELSE BulletMark \o row

\* lines 260-271
Bullets(rows) == [k \in 1..Len(rows) |-> Bullet(rows[k])]

\* lines 249-257: the new rows of a source; none when the scrape gave no rows
Fresh(seen, url, current_rows) ==
    IF current_rows = <<>> THEN <<>>
    ELSE NewRows(current_rows, Get(seen, url, <<>>))

SeenAfter_never_updates(seen, url, current_rows) == seen

SeenAfter_merges(seen, url, current_rows) ==
    IF current_rows = <<>> THEN seen
    ELSE Put(seen, url, Get(seen, url, <<>>) \o current_rows)

SeenAfter_without_continue(seen, url, current_rows) == Put(seen, url, current_rows)

\* lines 249-252 and 276: seen_dict after the iteration for url
SeenAfter(seen, url, current_rows) ==
    IF current_rows = <<>> THEN seen
    ELSE Put(seen, url, current_rows)

(***************************************************************************)
(* build_multi_source_message                                              *)
(***************************************************************************)
SectionCap == 20

\* str(n) for n >= 0
RECURSIVE Digits(_)
Digits(n) ==
    IF n < 10 THEN <<DigitChars[n + 1]>>
    ELSE Digits(n \div 10) \o <<DigitChars[(n % 10) + 1]>>

MorePrefix == BulletMark \o <<"&hellip;">> \o Chars(" y ")
MoreSuffix == Chars(" m") \o <<"&aacute;">> \o Chars("s")
MultiTitle == <<"&#x1F514;">> \o Chars(" Novedades CEDEAR")
DatePrefix == <<"&#x1F4C5;">> \o Chars(" ")
DateSuffix == Chars(" AR")
Signature ==
    << <<"&mdash;">>, Chars("Equipo RIG Valores"), <<>>,
       Chars("Este es un mensaje autom") \o <<"&aacute;">>
           \o Chars("tico generado por nuestro sistema de monitoreo."),
       Chars("Ante cualquier inquietud, contacte con su asesor."), <<>> >>

RECURSIVE SectionLines(_)
SectionLines(res) ==
    IF res = <<>> THEN <<>>
    ELSE LET items == res[1].items
             shown == SubSeq(items, 1, IF Len(items) > SectionCap THEN SectionCap ELSE Len(items))
             more == IF Len(items) > SectionCap
                     THEN <<MorePrefix \o Digits(Len(items) - SectionCap) \o MoreSuffix>>
                     ELSE <<>>
         IN (IF items = <<>> THEN <<>>
             ELSE <<res[1].title, <<>>>> \o shown \o more
                  \o << <<>>, FuentePrefix \o res[1].url, <<>> >>)
            \o SectionLines(Tail(res))

\* lines 212-241: the text, when there is something to send
ComposeText(results_by_section, now_str) ==
    Strip(Join(
        <<MultiTitle, <<>>, DatePrefix \o now_str \o DateSuffix, <<>>>>
        \o SectionLines(results_by_section)
        \o Signature,
        Newline))

build_multi_source_message_always(results_by_section, now_str) ==
    Some(ComposeText(results_by_section, now_str))

build_multi_source_message(results_by_section, now_str) ==
    IF \A i \in 1..Len(results_by_section) : results_by_section[i].items = <<>>
    THEN None
    ELSE Some(ComposeText(results_by_section, now_str))

(***************************************************************************)
(* send_telegram: its outcome for the environment it finds                 *)
(***************************************************************************)
send_telegram(token_set, chat_set, transport_ok) ==
    IF ~token_set \/ ~chat_set THEN "config_error"
    ELSE IF transport_ok THEN "ok" ELSE "transport_error"

\* an exception left send_telegram (called when outcome is not None)
Raised(outcome) == outcome # None /\ outcome[1] # "ok"

FileAfter_always_saves(f, seen, outcome) == save_seen(seen)

\* lines 280-286: STATE_FILE when main ends; save_seen is reached unless
\* send_telegram raised
FileAfter(f, seen, outcome) ==
    IF Raised(outcome) THEN f ELSE save_seen(seen)

(***************************************************************************)
(* Inputs of the pipeline                                                  *)
(***************************************************************************)
MaxRows == 2
MaxRuns == 3

TrA == <<Chars("01/02/26"), Chars(" AAPL"), Chars("Dividendo en  efectivo")>>
TrB == <<Chars("03/02/26"), Chars("KO"), Chars("SPLIT 1:2")>>
TrHeader == <<Chars("Fecha"), Chars("Identificaci") \o <<"&oacute;">> \o Chars("n"), Chars("Evento")>>

\* the rows each source's table can show, by position in SOURCES: the first
\* source shows both rows, in any order; the others one row each, a row the
\* first source can show too
DataTrs == <<{TrA, TrB}, {TrA}, {TrB}>>

SeqsUpTo(S, n) == UNION {[1..k -> S] : k \in 0..n}

\* what a scrape can find: no table, or a table of up to MaxRows data rows
\* under an optional header row
Pages(i) ==
    {None} \cup {Some(t) : t \in SeqsUpTo(DataTrs[i], MaxRows)}
           \cup {Some(<<TrHeader>> \o t) : t \in SeqsUpTo(DataTrs[i], MaxRows)}

RowA == Join([i \in 1..3 |-> Strip(TrA[i])], SepPipe)
RowB == Join([i \in 1..3 |-> Strip(TrB[i])], SepPipe)

\* STATE_FILE before the first run: absent, or a legacy flat list
InitFiles == {None} \cup {Some(JsonList(l)) : l \in {<<RowA>>, <<RowB, RowA>>}}

Clock == {Chars("2026-02-03 10:00")}

\* what scrape_rows can return for each source: its value on each page
Scraped == [i \in 1..NSources |-> {scrape_rows(page) : page \in Pages(i)}]

\* what send_telegram can do, over the environments it can find
SendOutcomes ==
    {send_telegram(token_set, chat_set, transport_ok) :
        token_set \in BOOLEAN, chat_set \in BOOLEAN, transport_ok \in BOOLEAN}

(***************************************************************************)
(* main                                                                    *)
(***************************************************************************)
Init ==
    /\ file \in InitFiles
    /\ run = 0
    /\ pc = "idle"
    /\ idx = 0
    /\ seen_dict = EmptyDict
    /\ current = <<>>
    /\ new_rows = <<>>
    /\ results = <<>>
    /\ msg = None
    /\ sends = <<>>
    /\ prev = <<>>
    /\ prev_done = None
    /\ arg = <<>>
    /\ ret = None

\* the process starts: line 244-245
StartRun ==
    /\ pc \in {"idle", "done", "crashed"}
    /\ run < MaxRuns
    /\ run' = run + 1
    /\ pc' = "loop"
    /\ idx' = 0
    /\ seen_dict' = load_seen(file)
    /\ current' = <<>>
    /\ new_rows' = <<>>
    /\ results' = <<>>
    /\ msg' = None
    /\ sends' = <<>>
    /\ prev' = current
    /\ prev_done' = IF pc = "idle" THEN None ELSE Some(pc = "done")
    /\ UNCHANGED <<file, arg, ret>>

\* one iteration of the loop over SOURCES: lines 247-276
ProcessSource ==
    /\ pc = "loop"
    /\ idx < NSources
    /\ \E current_rows \in Scraped[idx + 1] :
        LET src == SOURCES[idx + 1]
            fresh == Fresh(seen_dict, src.url, current_rows)
        IN /\ current' = Append(current, current_rows)
           /\ new_rows' = Append(new_rows, fresh)
           /\ results' = Append(results, [title |-> src.title, items |-> Bullets(fresh), url |-> src.url])
           /\ seen_dict' = SeenAfter(seen_dict, src.url, current_rows)
    /\ idx' = idx + 1
    /\ UNCHANGED <<file, run, pc, msg, sends, prev, prev_done, arg, ret>>

\* after the loop: lines 278-286
Finish ==
    /\ pc = "loop"
    /\ idx = NSources
    /\ \E now \in Clock :
        /\ msg' = build_multi_source_message(results, now)
        /\ \E sent \in SendOutcomes :
           LET outcome == IF msg' # None THEN Some(sent) ELSE None
           IN /\ sends' = sends \o outcome
              /\ pc' = IF Raised(outcome) THEN "crashed" ELSE "done"
              /\ file' = FileAfter(file, seen_dict, outcome)
    /\ UNCHANGED <<run, idx, seen_dict, current, new_rows, results, prev, prev_done, arg, ret>>

Next == StartRun \/ ProcessSource \/ Finish

Spec == Init /\ [][Next]_vars

(***************************************************************************)
(* build_message (the single-source builder)                               *)
(***************************************************************************)
cat_order == <<CatDividendos, CatCambios, CatAmpliaciones, CatInfo, CatOtros>>

Dash == Chars(" ") \o <<"&ndash;">> \o Chars(" ")
SingleTitle == <<"&#x1F514;">> \o Chars(" Nuevos eventos CEDEAR")

EmptyBuckets == [c \in Range(cat_order) |-> <<>>]

\* lines 160-176 for one row: acc holds buckets, div_seen and other_seen
AddRow_no_dedup(acc, row) ==
    LET p == parse_row(row)
        cl == classify_event(p.desc)
        cat == cl[1]
        lab == IF cl[2] # None /\ cl[2][1] # <<>> THEN cl[2][1] ELSE LblEvento
    IN IF p.ticker = <<>> THEN acc
       ELSE IF cat = CatDividendos
            THEN [acc EXCEPT !.buckets[cat] = Append(@, BulletMark \o p.ticker)]
            ELSE [acc EXCEPT !.buckets[cat] = Append(@, BulletMark \o p.ticker \o Dash \o lab)]

AddRow(acc, row) ==
    LET p == parse_row(row)
        cl == classify_event(p.desc)
        cat == cl[1]
        lab == IF cl[2] # None /\ cl[2][1] # <<>> THEN cl[2][1] ELSE LblEvento
        key == <<p.ticker, lab>>
    IN IF p.ticker = <<>> THEN acc
       ELSE IF cat = CatDividendos
            THEN IF p.ticker \notin acc.div_seen
                 THEN [acc EXCEPT !.div_seen = @ \cup {p.ticker},
                                  !.buckets[cat] = Append(@, BulletMark \o p.ticker)]
                 ELSE acc
            ELSE IF key \notin acc.other_seen
                 THEN [acc EXCEPT !.other_seen = @ \cup {key},
                                  !.buckets[cat] = Append(@, BulletMark \o p.ticker \o Dash \o lab)]
                 ELSE acc

\* lines 153-176: the buckets after the loop over new_items
RECURSIVE Fold(_, _)
Fold(acc, new_items) ==
    IF new_items = <<>> THEN acc
    ELSE Fold(AddRow(acc, new_items[1]), Tail(new_items))

Buckets(new_items) ==
    Fold([buckets |-> EmptyBuckets, div_seen |-> {}, other_seen |-> {}], new_items).buckets

\* lines 186-196: the lines of the non-empty categories, in cat_order
RECURSIVE CatLines(_, _, _)
CatLines(buckets, cats, max_per_cat) ==
    IF cats = <<>> THEN <<>>
    ELSE LET items == buckets[cats[1]]
             shown == SubSeq(items, 1, IF Len(items) > max_per_cat THEN max_per_cat ELSE Len(items))
             more == IF Len(items) > max_per_cat
                     THEN <<MorePrefix \o Digits(Len(items) - max_per_cat) \o MoreSuffix>>
                     ELSE <<>>
         IN (IF items = <<>> THEN <<>> ELSE <<cats[1], <<>>>> \o shown \o more \o << <<>> >>)
            \o CatLines(buckets, Tail(cats), max_per_cat)

build_message(new_items, now_str, url, max_per_cat) ==
    LET buckets == Buckets(new_items)
        any_section == \E c \in Range(cat_order) : buckets[c] # <<>>
    IN IF ~any_section THEN None
       ELSE Some(Strip(Join(
                <<SingleTitle, <<>>, DatePrefix \o now_str \o DateSuffix, <<>>>>
                \o CatLines(buckets, cat_order, max_per_cat)
                \o <<FuentePrefix \o url>>,
                Newline)))

(***************************************************************************)
(* Function specifications: the pipeline rests, one function is applied to *)
(* an argument drawn from a bounded set.                                   *)
(***************************************************************************)
MainIdle ==
    /\ file = None
    /\ run = 0
    /\ pc = "idle"
    /\ idx = 0
    /\ seen_dict = EmptyDict
    /\ current = <<>>
    /\ new_rows = <<>>
    /\ results = <<>>
    /\ msg = None
    /\ sends = <<>>
    /\ prev = <<>>
    /\ prev_done = None

\* ---- classify_event ----
MaxWords == 3

Vocabulary ==
    { Chars("dividendo"), KwDeslisting, KwCambio, KwMercado, KwSplit, Chars("Reverse"),
      KwAmpliacion, Chars("ampliaci") \o <<"&oacute;">> \o Chars("n"), KwWarrant,
      Chars("INFORMACION"), Chars("RELEVANTE"), Chars("PAGO") }

Descriptions == {Join(ws, Space) : ws \in SeqsUpTo(Vocabulary, MaxWords)}

InitClassify == MainIdle /\ arg \in Descriptions /\ ret = None

Classify ==
    /\ ret = None
    /\ ret' = Some(classify_event(arg))
    /\ UNCHANGED <<mainVars, arg>>

NextClassify == Classify

SpecClassify == InitClassify /\ [][NextClassify]_vars

\* ---- the diff of one source: scrape_rows, then lines 254-257 ----
MaxTable == 3

TrShort == <<Chars("2026"), Chars("total")>>

DiffPages == {None} \cup {Some(t) : t \in SeqsUpTo({TrA, TrB, TrShort, TrHeader}, MaxTable)}

\* seen_dict.get(url): no entry, or a list the program wrote (without duplicates)
DiffSeen == {None} \cup {Some(l) : l \in {<<>>, <<RowA>>, <<RowB>>, <<RowA, RowB>>, <<RowB, RowA>>}}

InitDiff == MainIdle /\ arg \in [page : DiffPages, seen : DiffSeen] /\ ret = None

Diff ==
    /\ ret = None
    /\ LET url == SOURCES[1].url
           seen == IF arg.seen = None THEN EmptyDict ELSE Put(EmptyDict, url, arg.seen[1])
       IN ret' = Some(Fresh(seen, url, scrape_rows(arg.page)))
    /\ UNCHANGED <<mainVars, arg>>

NextDiff == Diff

SpecDiff == InitDiff /\ [][NextDiff]_vars

\* ---- the bullets of one source: lines 260-271 ----
MaxNew == 2

\* a description of n characters
DescOfLen(n) == [i \in 1..n |-> IF i % 7 = 0 THEN " " ELSE IF i % 2 = 0 THEN "a" ELSE "b"]

BulletTickers == {<<>>, Chars("KO"), Chars("BRK  B")}
BulletDescs ==
    {<<>>, Chars("Dividendo  en efectivo"), DescOfLen(DescLimit - 1), DescOfLen(DescLimit),
     DescOfLen(DescLimit + 1)}

\* rows as scrape_rows joins them, some with empty trailing cells
BulletRows ==
    {Join(<<Chars("01/02/26"), t, d>>, SepPipe) : t \in BulletTickers, d \in BulletDescs}
    \cup {Join(<<Chars("01/02/26"), Chars("KO"), DescOfLen(DescLimit + 6), <<>>, <<>>>>, SepPipe)}

InitBullets == MainIdle /\ arg \in SeqsUpTo(BulletRows, MaxNew) /\ ret = None

MakeBullets ==
    /\ ret = None
    /\ ret' = Some(Bullets(arg))
    /\ UNCHANGED <<mainVars, arg>>

NextBullets == MakeBullets

SpecBullets == InitBullets /\ [][NextBullets]_vars

\* ---- build_message ----
MaxItems == 3

BuildRows ==
    { Chars("01/02/26 | KO | DIVIDENDO EN EFECTIVO"),
      Chars("02/02/26 | KO | Dividendo en acciones"),
      Chars("01/02/26 | AAPL | DIVIDENDO EN EFECTIVO"),
      Chars("01/02/26 | KO | SPLIT 1:2"),
      Chars("03/02/26 | KO | REVERSE SPLIT"),
      Chars("01/02/26 | KO | PAGO DE RENTA"),
      Chars("01/02/26 |  | ") }

MaxPerCat == {1, 10}

InitBuild ==
    /\ MainIdle
    /\ arg \in [new_items : SeqsUpTo(BuildRows, MaxItems), max_per_cat : MaxPerCat]
    /\ ret = None

Build ==
    /\ ret = None
    /\ \E now \in Clock :
        ret' = Some(build_message(arg.new_items, now, SOURCES[1].url, arg.max_per_cat))
    /\ UNCHANGED <<mainVars, arg>>

NextBuild == Build

SpecBuild == InitBuild /\ [][NextBuild]_vars

(***************************************************************************)
(* Properties of main                                                      *)
(***************************************************************************)
Ended == pc \in {"done", "crashed"}

Url(i) == SOURCES[i].url

\* the seen rows STATE_FILE holds for source i
Persisted(i) == Get(load_seen(file), Url(i), <<>>)

SameRowSets == \A i \in 1..NSources : Range(current[i]) = Range(prev[i])

NoNewRows == \A i \in 1..NSources : new_rows[i] = <<>>

LastSendRaised == sends # <<>> /\ sends[Len(sends)] # "ok"

\* C1 as claimed: the seen-state of the run is written whether or not delivery
\* succeeded, so also in a run whose send_telegram raised.
C1_PersistedRegardlessOfDelivery ==
    (Ended /\ LastSendRaised) => file = save_seen(seen_dict)

\* C1, amended: main reaches save_seen exactly when send_telegram did not raise
\* (it returned, or no message was composed); when it raises, for a missing
\* credential or a transport error, STATE_FILE is left as it was, and a next run
\* that fetches the same rows finds new rows again.
C1_SavedUnlessSendRaised ==
    /\ [][(pc = "loop" /\ pc' # "loop") =>
            IF sends' # <<>> /\ sends'[Len(sends')] # "ok"
            THEN pc' = "crashed" /\ file' = file
            ELSE pc' = "done" /\ file' = save_seen(seen_dict)]_vars
    /\ []((prev_done = Some(FALSE) /\ idx = NSources /\ current = prev) => ~NoNewRows)

C1_Witness ==
    /\ pc = "crashed"
    /\ sends = <<"config_error">>
    /\ file # save_seen(seen_dict)

C3_SeenIsCurrentBatch ==
    pc = "done" => \A i \in 1..NSources : Persisted(i) = current[i]

\* C3, amended: after a run that reached save_seen, the seen-state of every
\* source that yielded rows is exactly that batch (overwritten, not merged), so
\* the rows reported new by the next run are the fetched rows absent from the
\* previous non-empty batch; a source that yielded no rows keeps its seen-state.
C3_SeenIsLastFetchedBatch ==
    /\ pc = "done" =>
        \A i \in 1..NSources : current[i] # <<>> => Persisted(i) = current[i]
    /\ prev_done = Some(TRUE) =>
        \A i \in 1..idx : prev[i] # <<>> =>
            /\ Range(new_rows[i]) = Range(current[i]) \ Range(prev[i])
            /\ Len(new_rows[i]) = Cardinality(Range(new_rows[i]))

C3_Witness ==
    /\ pc = "done"
    /\ prev_done = Some(TRUE)
    /\ \E i \in 1..NSources :
        /\ current[i] # <<>>
        /\ \E r \in Range(prev[i]) : r \notin Range(current[i]) /\ r \notin Range(Persisted(i))

C6_NothingNewNothingSent ==
    Ended =>
        /\ NoNewRows => (msg = None /\ sends = <<>> /\ pc = "done" /\ file = save_seen(seen_dict))
        /\ sends # <<>> => \E i \in 1..NSources : results[i].items # <<>>
        /\ (msg = None) = (\A i \in 1..NSources : results[i].items = <<>>)

C6_Witness ==
    /\ pc = "done"
    /\ NoNewRows
    /\ msg = None
    /\ sends = <<>>
    /\ \E i \in 1..NSources : current[i] # <<>>

IsLegacyList(f) == f # None /\ f[1].kind = "list"

HasLegacy(f, l) ==
    /\ f # None
    /\ f[1].kind = "dict"
    /\ LegacyKey \in DOMAIN f[1].data
    /\ f[1].data[LegacyKey] = l

\* C10: a STATE_FILE holding a flat list is loaded as {"legacy": list}; in
\* that run every fetched row is new, also a row of the legacy list; and each
\* save_seen, in that run and in the later ones, writes the "legacy" entry
\* as the list was.
C10_LegacyIgnoredAndKept ==
    /\ []((IsLegacyList(file) /\ pc = "loop") =>
            /\ load_seen(file) = Put(EmptyDict, LegacyKey, file[1].data)
            /\ \A i \in 1..idx : new_rows[i] = current[i]
            /\ HasLegacy(save_seen(seen_dict), file[1].data))
    /\ [][IsLegacyList(file) => (file' = file \/ HasLegacy(file', file[1].data))]_vars
    /\ [][\A l \in {<<RowA>>, <<RowB, RowA>>} : HasLegacy(file, l) => HasLegacy(file', l)]_vars

C10_Witness ==
    /\ run > 1
    /\ pc = "done"
    /\ \E l \in {<<RowA>>, <<RowB, RowA>>} :
        /\ HasLegacy(file, l)
        /\ \E r \in Range(l) : r \in Range(Persisted(1))

(***************************************************************************)
(* Properties of the functions                                             *)
(***************************************************************************)
\* the position of the first occurrence of x in s
FirstIndex(s, x) == CHOOSE i \in 1..Len(s) : s[i] = x /\ \A j \in 1..(i - 1) : s[j] # x

NoDuplicates(s) == \A i, j \in 1..Len(s) : s[i] = s[j] => i = j

\* the order of s is the order of the first occurrences in t
FirstOccurrenceOrder(s, t) ==
    \A i, j \in 1..Len(s) : i < j => FirstIndex(t, s[i]) < FirstIndex(t, s[j])

\* C5: the new rows of a source are the fetched rows that are not among the
\* stored seen rows of the source, each once, in the order of their first
\* occurrence in the table.
C5_NewRowsAreUnseenFetchedRows ==
    ret # None =>
        LET fetched == IF arg.page = None THEN <<>> ELSE RawRows(arg.page[1])
            seen_list == IF arg.seen = None THEN <<>> ELSE arg.seen[1]
            new == ret[1]
        IN /\ Range(new) = Range(fetched) \ Range(seen_list)
           /\ NoDuplicates(new)
           /\ FirstOccurrenceOrder(new, fetched)

\* three fetched rows, the first two equal, none seen: two new rows
C5_Witness ==
    /\ ret # None
    /\ arg.page = Some(<<TrB, TrB, TrA>>)
    /\ arg.seen = None
    /\ ret[1] = <<RowB, RowA>>

\* the rules in the order claimed: a rule matches when the upper-cased
\* description contains every keyword of one of its alternatives
Rules ==
    << [alts |-> {{KwDividendo}}, result |-> <<CatDividendos, None>>],
       [alts |-> {{KwDeslisting}}, result |-> <<CatCambios, Some(LblDeslisting)>>],
       [alts |-> {{KwCambioDeMercado}, {KwCambio, KwMercado}},
        result |-> <<CatCambios, Some(LblCambioMercado)>>],
       [alts |-> {{KwSplit}}, result |-> <<CatCambios, Some(LblSplit)>>],
       [alts |-> {{KwAmpliacionAcc}, {KwAmpliacion}},
        result |-> <<CatAmpliaciones, Some(LblAmpliacion)>>],
       [alts |-> {{KwWarrant}, {KwDistribucionAcc}, {KwDistribucion}},
        result |-> <<CatCambios, Some(LblDistribucion)>>],
       [alts |-> {{KwInformacionAcc}, {KwInformacionTypo}, {KwInformacion}},
        result |-> <<CatInfo, Some(LblInfo)>>] >>

Matches(i, d) == \E alt \in Rules[i].alts : \A kw \in alt : Contains(d, kw)

C8_OneBulletPerRow ==
    ret # None =>
        /\ Len(ret[1]) = Len(arg)
        /\ \A k \in 1..Len(arg) :
            LET p == parse_row(arg[k])
                head == BulletMark \o p.fecha \o SepPipe \o p.ticker \o SepPipe
                b == ret[1][k]
                d == SubSeq(b, Len(head) + 1, Len(b))
            IN IF p.ticker = <<>> THEN b = BulletMark \o arg[k]
               ELSE /\ SubSeq(b, 1, Len(head)) = head
                    /\ Len(d) <= DescLimit
                    /\ Len(p.desc) <= DescLimit => d = p.desc
                    /\ Len(p.desc) > DescLimit =>
                        /\ SubSeq(d, Len(d) - 2, Len(d)) = Ellipsis
                        /\ SubSeq(d, 1, Len(d) - 3) = SubSeq(p.desc, 1, Len(d) - 3)
                        /\ Len(d) = DescLimit

C8_Witness ==
    /\ ret # None
    /\ Len(arg) = 2
    /\ parse_row(arg[1]).ticker = <<>>
    /\ parse_row(arg[2]).ticker # <<>>
    /\ Len(parse_row(arg[2]).desc) > DescLimit
    /\ Len(ret[1][2]) = Len(BulletMark) + 8 + 3 + 2 + 3 + DescLimit

\* ticker, category and label of each row of items
Parsed(items) ==
    [k \in 1..Len(items) |->
        LET p == parse_row(items[k])
            cl == classify_event(p.desc)
        IN [ticker |-> p.ticker, cat |-> cl[1], label |-> cl[2]]]

\* C9: the Dividendos bucket has one bullet per distinct ticker of the
\* dividend rows, in the order of their first rows; every other bucket has as
\* many bullets as distinct (ticker, label) pairs of its rows, no two equal;
\* rows with an empty ticker add nothing; build_message returns None exactly
\* when every bucket is empty.
C9_BucketsAreDeduplicated ==
    ret # None =>
      \A buckets \in {Buckets(arg.new_items)}, row \in {Parsed(arg.new_items)} :
        LET items == arg.new_items
            filed(c) == {k \in 1..Len(items) : row[k].ticker # <<>> /\ row[k].cat = c}
            first == {k \in filed(CatDividendos) :
                        \A j \in filed(CatDividendos) : row[j].ticker = row[k].ticker => k <= j}
        IN /\ Len(buckets[CatDividendos]) = Cardinality(first)
           /\ \A n \in 1..Len(buckets[CatDividendos]) :
                \E k \in first :
                    /\ buckets[CatDividendos][n] = BulletMark \o row[k].ticker
                    /\ Cardinality({j \in first : j < k}) = n - 1
           /\ \A c \in Range(cat_order) \ {CatDividendos} :
                /\ Len(buckets[c]) = Cardinality({<<row[k].ticker, row[k].label>> : k \in filed(c)})
                /\ NoDuplicates(buckets[c])
           /\ (ret[1] = None) = (\A c \in Range(cat_order) : buckets[c] = <<>>)
           /\ (\A k \in 1..Len(items) : row[k].ticker = <<>>) => ret[1] = None

\* two dividend rows of one ticker, and a row without ticker: one bullet
C9_Witness ==
    /\ ret # None
    /\ ret[1] # None
    /\ arg.new_items = << Chars("01/02/26 | KO | DIVIDENDO EN EFECTIVO"),
                          Chars("01/02/26 |  | "),
                          Chars("02/02/26 | KO | Dividendo en acciones") >>
    /\ Buckets(arg.new_items)[CatDividendos] = <<BulletMark \o Chars("KO")>>

====
